---------------------------- MODULE Spec2Model ----------------------------
(***************************************************************************)
(* peertube-plugin-auth-openid-connect/main.js as a state machine.         *)
(*                                                                         *)
(* The plugin keeps one process-wide record, store, and has three kinds of *)
(* asynchronous operations that interleave at their await points:          *)
(*   register / loadSettingsAndCreateClient  (startup and settings change) *)
(*   onAuthRequest                           (login click)                 *)
(*   handleCb                                (the IdP's form_post callback)*)
(* Each action below is one run-to-completion segment of the JavaScript    *)
(* code, from one await to the next.                                       *)
(*                                                                         *)
(* The cipher (Node crypto, 'aes256' = AES-256-CBC with PKCS#7 padding,    *)
(* hex encoded) is modelled by what it does, on a reduced scale: a byte    *)
(* has 2 bits instead of 8, a hex digit 1 bit instead of 4, a block        *)
(* BlockSize bytes instead of 16, and the block cipher is a keyed Feistel  *)
(* permutation whose inverse is computed, not assumed.                     *)
(***************************************************************************)
EXTENDS Integers, Sequences, FiniteSets, TLC

(***************************************************************************)
(* Bounds of the model.                                                    *)
(***************************************************************************)
\* runs of loadSettingsAndCreateClient (the startup run plus settings
\* changes) in ReconfSpec, where nothing else runs
MaxReconf == 3
\* runs of loadSettingsAndCreateClient in Spec, where requests are served too
MaxReconfServing == 2
\* invocations of onAuthRequest
MaxAuthReq == 1
\* invocations of handleCb
MaxCb == 1
\* longest plaintext given to encrypt in CryptoSpec
MaxLen == 3

\* the onAuthRequest invocations that may overlap in AuthSpec
MaxAuthOverlap == 2

\* the longest username drawn for the identity mapping, the examples apart
MaxNameLen == 2

\* store.client / store.userAuthenticated / store.secretKey: null
Null == 0

(***************************************************************************)
(* Bytes, hex text, utf8.                                                  *)
(***************************************************************************)
\* a cipher block and an IV, in bytes (16 in AES; scaled)
BlockSize == 2

Bytes == 0 .. 3

HexDigits == <<"0", "1">>

\* the characters a cookie value is made of here: hex digits, the
\* separator, and one character that is no hex digit
Separator == ":"

NonHex == "z"

SegmentChars == {"0", "1", NonHex}

\* the character set of openid-client's generators.codeVerifier()
\* (base64url), scaled to two characters
VerifierChars == {"a", "b"}

\* utf8 of the characters used; every byte of the scaled range is a
\* one-byte character, as every byte below 0x80 is
Utf8Code(c) ==
  CASE c = "a" -> 0
    [] c = "b" -> 3
    [] c = "\\x01" -> 1
    [] OTHER -> 2

Utf8Char(b) ==
  CASE b = 0 -> "a"
    [] b = 3 -> "b"
    [] b = 1 -> "\\x01"
    [] OTHER -> "\\x02"

Utf8Encode(s) == [i \in 1 .. Len(s) |-> Utf8Code(s[i])]

Utf8Decode(bs) == [i \in 1 .. Len(bs) |-> Utf8Char(bs[i])]

\* Buffer.toString('hex'): two digits a byte
HexOfByte(b) == <<HexDigits[(b \div 2) + 1], HexDigits[(b % 2) + 1]>>

RECURSIVE HexEncode(_)
HexEncode(bs) ==
  IF bs = <<>> THEN <<>> ELSE HexOfByte(Head(bs)) \o HexEncode(Tail(bs))

IsHexDigit(c) == c = "0" \/ c = "1"

HexValue(c) == IF c = "1" THEN 1 ELSE 0

\* Buffer.from(text, 'hex'): decodes pair by pair and stops, without an
\* error, at the first pair that is not two hex digits; an odd last
\* character is dropped
RECURSIVE HexDecode(_)
HexDecode(t) ==
  IF Len(t) < 2 \/ ~IsHexDigit(t[1]) \/ ~IsHexDigit(t[2])
  THEN <<>>
  ELSE <<HexValue(t[1]) * 2 + HexValue(t[2])>> \o HexDecode(SubSeq(t, 3, Len(t)))

\* String.prototype.split(':'): the segments between separators
RECURSIVE Split(_)
Split(t) ==
  IF \A i \in 1 .. Len(t) : t[i] # Separator
  THEN <<t>>
  ELSE LET p == CHOOSE i \in 1 .. Len(t) :
                  t[i] = Separator /\ \A j \in 1 .. (i - 1) : t[j] # Separator
       IN <<SubSeq(t, 1, p - 1)>> \o Split(SubSeq(t, p + 1, Len(t)))

(***************************************************************************)
(* The block cipher and CBC with PKCS#7 padding.                           *)
(***************************************************************************)
XorByte(a, b) ==
  (((a \div 2) + (b \div 2)) % 2) * 2 + ((a + b) % 2)

\* the round function of the keyed permutation
RoundF(k, n, x) == (x * x + x + k + n) % 4

FeistelRound(k, n, blk) == <<blk[2], XorByte(blk[1], RoundF(k, n, blk[2]))>>

FeistelUnround(k, n, blk) == <<XorByte(blk[2], RoundF(k, n, blk[1])), blk[1]>>

BlockEncrypt(k, blk) ==
  FeistelRound(k, 3, FeistelRound(k, 2, FeistelRound(k, 1, blk)))

BlockDecrypt(k, blk) ==
  FeistelUnround(k, 1, FeistelUnround(k, 2, FeistelUnround(k, 3, blk)))

\* 'aes-256-ecb' in place of 'aes256': no chaining
CbcMix_Ecb(prev, blk) == blk

\* algorithm 'aes256' is CBC: a block is combined with the previous
\* ciphertext block (the IV for the first)
CbcMix(prev, blk) == [i \in 1 .. Len(blk) |-> XorByte(prev[i], blk[i])]

\* PKCS#7: n bytes of value n, 1 <= n <= BlockSize
Pad(bs) ==
  LET n == BlockSize - (Len(bs) % BlockSize)
  IN bs \o [i \in 1 .. n |-> n]

PadOk(bs) ==
  /\ Len(bs) > 0
  /\ Len(bs) % BlockSize = 0
  /\ LET n == bs[Len(bs)]
     IN /\ n >= 1
        /\ n <= BlockSize
        /\ \A i \in (Len(bs) - n + 1) .. Len(bs) : bs[i] = n

Unpad(bs) == SubSeq(bs, 1, Len(bs) - bs[Len(bs)])

RECURSIVE CbcEncrypt(_, _, _)
CbcEncrypt(k, prev, bs) ==
  IF bs = <<>> THEN <<>>
  ELSE LET c == BlockEncrypt(k, CbcMix(prev, SubSeq(bs, 1, BlockSize)))
       IN c \o CbcEncrypt(k, c, SubSeq(bs, BlockSize + 1, Len(bs)))

RECURSIVE CbcDecrypt(_, _, _)
CbcDecrypt(k, prev, cs) ==
  IF cs = <<>> THEN <<>>
  ELSE LET c == SubSeq(cs, 1, BlockSize)
       IN CbcMix(prev, BlockDecrypt(k, c))
            \o CbcDecrypt(k, c, SubSeq(cs, BlockSize + 1, Len(cs)))

\* cipher.update(data, 'utf8', 'hex') alone, without cipher.final('hex'):
\* only the complete blocks of the unpadded data come out
CipherText_NoFinal(k, iv, data) ==
  LET bs == Utf8Encode(data)
  IN HexEncode(CbcEncrypt(k, iv, SubSeq(bs, 1, Len(bs) - (Len(bs) % BlockSize))))

\* cipher.update(data, 'utf8', 'hex') + cipher.final('hex')
CipherText(k, iv, data) == HexEncode(CbcEncrypt(k, iv, Pad(Utf8Encode(data))))

\* the result of an operation that may throw
Thrown == [ok |-> FALSE, value |-> <<>>]

Returned(v) == [ok |-> TRUE, value |-> v]

\* an encrypt that returns its input
encrypt_Plain(key, iv, data) == Returned(data)

\* encrypt(data), given the bytes getRandomBytes(16) delivered;
\* createCipheriv throws on a null key
encrypt(key, iv, data) ==
  IF key = Null
  THEN Thrown
  ELSE Returned(HexEncode(iv) \o <<Separator>> \o CipherText(key, iv, data))

\* decrypt(data): Buffer.from(undefined) throws when there is no second
\* segment, createDecipheriv throws on a null key or an IV that is not one
\* block long, decipher.final throws on a ciphertext that is empty or not
\* whole blocks and on bad padding
decrypt(key, data) ==
  LET encryptedArray == Split(data)
  IN IF Len(encryptedArray) < 2 \/ key = Null
     THEN Thrown
     ELSE LET iv == HexDecode(encryptedArray[1])
              encrypted == HexDecode(encryptedArray[2])
          IN IF Len(iv) # BlockSize
             THEN Thrown
             ELSE IF Len(encrypted) = 0 \/ Len(encrypted) % BlockSize # 0
             THEN Thrown
             ELSE LET plain == CbcDecrypt(key, iv, encrypted)
                  IN IF PadOk(plain)
                     THEN Returned(Utf8Decode(Unpad(plain)))
                     ELSE Thrown

(***************************************************************************)
(* The state.                                                              *)
(***************************************************************************)
VARIABLES
  store,      \* the process-wide record: client, userAuthenticated, secretKey, redirectUrl
  regPc,      \* where register() stands
  hostAuths,  \* the host's list of registered external auth methods
  settings,   \* the administrator's settings, as settingsManager holds them
  reconf,     \* the runs of loadSettingsAndCreateClient
  authReq,    \* the invocations of onAuthRequest
  cb,         \* the invocations of handleCb
  cryptoOps,  \* the key every executed encrypt and decrypt read
  box         \* encrypt and decrypt on their own (CryptoSpec)

vars == <<store, regPc, hostAuths, settings, reconf, authReq, cb, cryptoOps, box>>

sysVars == <<store, regPc, hostAuths, settings, reconf, authReq, cb, cryptoOps>>

\* the keys getRandomBytes(16).toString('hex') may yield
Keys == {1, 2}

\* the IVs getRandomBytes(16) delivers to encrypt in Spec
SomeIVs == {<<0, 1>>, <<3, 2>>}

\* the verifiers generators.codeVerifier() returns in Spec: random strings
\* of one length, of more than one block, no two alike in any block
Verifiers == {<<"a", "b", "a">>, <<"b", "a", "b">>}

AllIVs == [1 .. BlockSize -> Bytes]

RECURSIVE StringsOfLen(_)
StringsOfLen(n) ==
  IF n = 0 THEN {<<>>}
  ELSE {Append(s, c) : s \in StringsOfLen(n - 1), c \in VerifierChars}

Strings == UNION {StringsOfLen(n) : n \in 0 .. MaxLen}

\* the three settings loadSettingsAndCreateClient reads; "" is unset
Setting(url, id, secret) ==
  [discover_url |-> url, client_id |-> id, client_secret |-> secret]

SettingsSpace ==
  {Setting("https://idp.example/.well-known", "abc", ""),
   Setting("https://idp.example/.well-known", "abc", "s3cret"),
   Setting("", "abc", ""),
   Setting("https://idp.example/.well-known", "", "")}

NoSettings == [discover_url |-> "", client_id |-> "", client_secret |-> ""]

\* the name the method is registered under
authName == "openid-connect"

\* the name loadSettingsAndCreateClient unregisters
unregisterName == "openid"

RedirectUrl == "https://peertube.example/plugins/auth-openid-connect/router/id-token-cb"

\* generators.codeChallenge(v): BASE64URL(SHA-256(v)), as an injective tag
codeChallenge(v) == <<"S256">> \o v

(***************************************************************************)
(* The host's registry (PeerTube's register helpers): registerExternalAuth *)
(* appends the method and hands back a fresh userAuthenticated handle;     *)
(* unregisterExternalAuth(name) drops the methods of that name.            *)
(***************************************************************************)
registerExternalAuth(auths, i) == Append(auths, [authName |-> authName, by |-> i])

unregisterExternalAuth(auths, name) == SelectSeq(auths, LAMBDA a : a.authName # name)

(***************************************************************************)
(* The identity mapping of handleCb. A JavaScript value is undefined, a    *)
(* string, a number or NaN; userInfo maps claim names to values.           *)
(***************************************************************************)
Undefined == [t |-> "undefined", s |-> <<>>, n |-> 0]

NaN == [t |-> "NaN", s |-> <<>>, n |-> 0]

Str(s) == [t |-> "string", s |-> s, n |-> 0]

Num(n) == [t |-> "number", s |-> <<>>, n |-> n]

\* the truth value of v in a condition and under ||
Truthy(v) ==
  CASE v.t = "string" -> v.s # <<>>
    [] v.t = "number" -> v.n # 0
    [] OTHER -> FALSE

LowerCase ==
  {"a", "b", "c", "d", "e", "f", "g", "h", "i", "j", "k", "l", "m",
   "n", "o", "p", "q", "r", "s", "t", "u", "v", "w", "x", "y", "z"}

Digits == {"0", "1", "2", "3", "4", "5", "6", "7", "8", "9"}

WhiteSpace == {" ", "\t", "\n"}

DigitValue(c) ==
  CASE c = "0" -> 0 [] c = "1" -> 1 [] c = "2" -> 2 [] c = "3" -> 3 [] c = "4" -> 4
    [] c = "5" -> 5 [] c = "6" -> 6 [] c = "7" -> 7 [] c = "8" -> 8 [] c = "9" -> 9

DigitChar(d) == CHOOSE c \in Digits : DigitValue(c) = d

RECURSIVE DecimalString(_)
DecimalString(n) ==
  IF n < 10 THEN <<DigitChar(n)>>
  ELSE Append(DecimalString(n \div 10), DigitChar(n % 10))

\* '' + v
StringOf(v) ==
  CASE v.t = "string" -> v.s
    [] v.t = "number" -> IF v.n < 0 THEN <<"-">> \o DecimalString(0 - v.n)
                         ELSE DecimalString(v.n)
    [] v.t = "NaN" -> <<"N", "a", "N">>
    [] OTHER -> <<"u", "n", "d", "e", "f", "i", "n", "e", "d">>

RECURSIVE TrimStart(_)
TrimStart(s) ==
  IF s # <<>> /\ Head(s) \in WhiteSpace THEN TrimStart(Tail(s)) ELSE s

\* the longest prefix of s made of digits
RECURSIVE DigitPrefix(_)
DigitPrefix(s) ==
  IF s # <<>> /\ Head(s) \in Digits THEN <<Head(s)>> \o DigitPrefix(Tail(s)) ELSE <<>>

RECURSIVE DecimalValue(_)
DecimalValue(ds) ==
  IF ds = <<>> THEN 0
  ELSE 10 * DecimalValue(SubSeq(ds, 1, Len(ds) - 1)) + DigitValue(ds[Len(ds)])

\* a parseInt that yields 0 where there is no number
parseInt_OrZero(s) ==
  LET t == TrimStart(s)
      signed == t # <<>> /\ Head(t) \in {"+", "-"}
      ds == DigitPrefix(IF signed THEN Tail(t) ELSE t)
  IN IF ds = <<>> THEN Num(0)
     ELSE IF signed /\ Head(t) = "-" THEN Num(0 - DecimalValue(ds))
     ELSE Num(DecimalValue(ds))

\* parseInt(s, 10): leading white space is skipped, a sign is read, and the
\* digits up to the first other character are the number; NaN without digits
parseInt(s) ==
  LET t == TrimStart(s)
      signed == t # <<>> /\ Head(t) \in {"+", "-"}
      ds == DigitPrefix(IF signed THEN Tail(t) ELSE t)
  IN IF ds = <<>> THEN NaN
     ELSE IF signed /\ Head(t) = "-" THEN Num(0 - DecimalValue(ds))
     ELSE Num(DecimalValue(ds))

\* a replace that drops the characters instead
sanitize_Drop(s) == SelectSeq(s, LAMBDA c : c \in LowerCase \cup Digits \cup {".", "_"})

\* username.replace(/[^a-z0-9._]/g, '_')
sanitize(s) ==
  [i \in 1 .. Len(s) |->
     IF s[i] \in LowerCase \cup Digits \cup {".", "_"} THEN s[i] ELSE "_"]

\* userInfo[property]
Get(userInfo, property) ==
  IF property \in DOMAIN userInfo THEN userInfo[property] ELSE Undefined

\* the four mapping settings handleCb reads; "" is unset
MapSetting(username, mail, displayName, role) ==
  [username_property |-> username, mail_property |-> mail,
   display_name_property |-> displayName, role_property |-> role]

UserInfo(username, email, name, role) ==
  [preferred_username |-> username, email |-> email, name |-> name, role |-> role]

NoIdentity ==
  [username |-> Undefined, email |-> Undefined, displayName |-> Undefined,
   role |-> Undefined]

\* role, displayName and username as handleCb computes them, and the object
\* passed to store.userAuthenticated; replace is no function of a number,
\* so a truthy username that is no string throws
mapIdentity(ms, userInfo) ==
  LET role == IF ms.role_property # ""
              THEN parseInt(StringOf(Get(userInfo, ms.role_property)))
              ELSE Undefined
      displayName == IF ms.display_name_property # ""
                     THEN Get(userInfo, ms.display_name_property)
                     ELSE Undefined
      found == Get(userInfo, ms.username_property)
      username == IF Truthy(found) THEN found ELSE Str(<<>>)
  IN IF username.t # "string"
     THEN Thrown
     ELSE Returned([username |-> Str(sanitize(username.s)),
                    email |-> Get(userInfo, ms.mail_property),
                    displayName |-> displayName,
                    role |-> role])

\* the mapping settings and userinfo responses of the callbacks in Spec
SomeMappings ==
  {[ms |-> MapSetting("preferred_username", "email", "name", "role"),
    userInfo |-> UserInfo(Str(<<"J", "o">>), Str(<<"j", "@", "x">>),
                          Str(<<"J", "o">>), Str(<<"2">>))],
   [ms |-> MapSetting("preferred_username", "email", "", "role"),
    userInfo |-> UserInfo(Undefined, Str(<<"j", "@", "x">>), Undefined, Undefined)],
   [ms |-> MapSetting("preferred_username", "email", "", ""),
    userInfo |-> UserInfo(Num(7), Undefined, Undefined, Undefined)]}

(***************************************************************************)
(* Init                                                                    *)
(***************************************************************************)
\* settings: the settings the run read; overlap: another run was awaiting
\* when this one began
IdleReconf ==
  [pc |-> "idle", settings |-> NoSettings, outcome |-> "", logged |-> FALSE,
   overlap |-> FALSE]

\* store.client.authorizationUrl({...}): the parameters of the URL
authorizationUrl(challenge) ==
  [scope |-> "openid email profile", response_mode |-> "form_post",
   code_challenge |-> challenge, code_challenge_method |-> "S256"]

NoUrl == authorizationUrl(<<>>)

\* verifier, challenge, url: the locals codeVerifier, codeChallenge and
\* redirectUrl of the invocation; cookie, response: what was sent
IdleAuthReq ==
  [pc |-> "idle", verifier |-> <<>>, challenge |-> <<>>, url |-> NoUrl,
   cookie |-> <<>>, response |-> "none", logged |-> FALSE, failedAt |-> ""]

\* kind, same, from, code: the request; hadAcceptor: whether a handle was
\* installed when it arrived; did: the calls made so far; cCallback,
\* cUserinfo: the client callbackParams/callback and userinfo were called on
IdleCb ==
  [pc |-> "idle", kind |-> "", from |-> 0, same |-> FALSE, code |-> 0,
   hadAcceptor |-> FALSE, verifier |-> <<>>,
   cCallback |-> Null, cUserinfo |-> Null, did |-> {},
   response |-> "none", failedAt |-> "", exit |-> "", identity |-> NoIdentity]

IdleBox ==
  [phase |-> "off", key |-> Null, data |-> <<>>, iv |-> <<>>, token |-> <<>>,
   kind |-> "", same |-> FALSE, result |-> Thrown]

SysInit(initial) ==
  /\ store = [client |-> Null, userAuthenticated |-> Null, secretKey |-> Null,
              redirectUrl |-> ""]
  /\ regPc = "start"
  /\ hostAuths = <<>>
  /\ settings \in initial
  /\ reconf = [i \in 1 .. MaxReconf |-> IdleReconf]
  /\ authReq = [r \in 1 .. MaxAuthReq |-> IdleAuthReq]
  /\ cb = [h \in 1 .. MaxCb |-> IdleCb]
  /\ cryptoOps = {}

Init == SysInit(SettingsSpace) /\ box = IdleBox

(***************************************************************************)
(* register and loadSettingsAndCreateClient.                               *)
(***************************************************************************)
\* the run a settings change starts: the first idle one
NextReconf == CHOOSE i \in 1 .. MaxReconf :
                reconf[i].pc = "idle" /\ \A j \in 1 .. (i - 1) : reconf[j].pc # "idle"

\* a reset that also drops the key
resetStore_AlsoKey(s) ==
  [s EXCEPT !.client = Null, !.userAuthenticated = Null, !.secretKey = Null]

\* a reset of the client alone
resetStore_ClientOnly(s) == [s EXCEPT !.client = Null]

\* store.client = null; store.userAuthenticated = null
resetStore(s) == [s EXCEPT !.client = Null, !.userAuthenticated = Null]

\* the key is not stored
newSecretKey_NotStored(k) == Null

\* store.secretKey = secretKeyBuf.toString('hex')
newSecretKey(k) == k

\* loadSettingsAndCreateClient up to its first await: unregisters when a
\* client is installed, resets the store, and asks for the settings
loadSettingsAndCreateClient_begin(i, s) ==
  /\ hostAuths' = IF s.client # Null
                  THEN unregisterExternalAuth(hostAuths, unregisterName)
                  ELSE hostAuths
  /\ store' = resetStore(s)
  /\ reconf' = [reconf EXCEPT ![i].pc = "getSettings",
                              ![i].overlap = \E j \in DOMAIN reconf :
                                               reconf[j].pc \in {"getSettings", "discover"}]

\* register up to its first await: the settings are declared, the callback
\* route is installed, the redirect URL is stored, random bytes are asked for
register_begin ==
  /\ regPc = "start"
  /\ regPc' = "randomBytes"
  /\ store' = [store EXCEPT !.redirectUrl = RedirectUrl]
  /\ UNCHANGED <<hostAuths, settings, reconf, authReq, cb, cryptoOps, box>>

\* getRandomBytes rejects: register rejects
register_randomBytesFail ==
  /\ regPc = "randomBytes"
  /\ regPc' = "rejected"
  /\ UNCHANGED <<store, hostAuths, settings, reconf, authReq, cb, cryptoOps, box>>

\* the random bytes arrive: the key is stored and the startup run of
\* loadSettingsAndCreateClient begins
register_secretKey(k) ==
  /\ regPc = "randomBytes"
  /\ regPc' = "loading"
  /\ loadSettingsAndCreateClient_begin(1, [store EXCEPT !.secretKey = newSecretKey(k)])
  /\ UNCHANGED <<settings, authReq, cb, cryptoOps, box>>

\* register after the startup run: the settings-change listener is installed
\* when the run returned, and register rejects when it threw
registerAfter(i, threw) ==
  IF i # 1 THEN regPc ELSE IF threw THEN "rejected" ELSE "listening"

\* the administrator saves settings while no listener is installed
settingsSaved(s) ==
  /\ regPc # "listening"
  /\ s # settings
  /\ settings' = s
  /\ UNCHANGED <<store, regPc, hostAuths, reconf, authReq, cb, cryptoOps, box>>

\* the administrator saves settings and the host notifies the listener,
\* which starts a run of loadSettingsAndCreateClient
onSettingsChange(s, limit) ==
  /\ regPc = "listening"
  /\ \E i \in 1 .. limit : reconf[i].pc = "idle"
  /\ settings' = s
  /\ loadSettingsAndCreateClient_begin(NextReconf, store)
  /\ UNCHANGED <<regPc, authReq, cb, cryptoOps, box>>

\* getSettings resolved: return when discover-url or client-id is unset,
\* else start the issuer discovery
loadSettingsAndCreateClient_getSettings(i) ==
  /\ reconf[i].pc = "getSettings"
  /\ IF settings.discover_url = "" \/ settings.client_id = ""
     THEN /\ reconf' = [reconf EXCEPT ![i].pc = "done", ![i].settings = settings,
                                      ![i].outcome = "disabled", ![i].logged = TRUE]
          /\ regPc' = registerAfter(i, FALSE)
     ELSE /\ reconf' = [reconf EXCEPT ![i].pc = "discover", ![i].settings = settings]
          /\ UNCHANGED regPc
  /\ UNCHANGED <<store, hostAuths, settings, authReq, cb, cryptoOps, box>>

\* Issuer.discover rejected: the run throws; only the listener's run
\* catches and logs
loadSettingsAndCreateClient_discoverFail(i) ==
  /\ reconf[i].pc = "discover"
  /\ reconf' = [reconf EXCEPT ![i].pc = "done", ![i].outcome = "threw",
                              ![i].logged = (i # 1)]
  /\ regPc' = registerAfter(i, TRUE)
  /\ UNCHANGED <<store, hostAuths, settings, authReq, cb, cryptoOps, box>>

\* the issuer was discovered: the client is installed, and the method is
\* registered unless a userAuthenticated handle is held
loadSettingsAndCreateClient_discovered(i) ==
  /\ reconf[i].pc = "discover"
  /\ IF store.userAuthenticated # Null
     THEN /\ store' = [store EXCEPT !.client = i]
          /\ reconf' = [reconf EXCEPT ![i].pc = "done", ![i].outcome = "kept"]
          /\ UNCHANGED hostAuths
     ELSE /\ hostAuths' = registerExternalAuth(hostAuths, i)
          /\ store' = [store EXCEPT !.client = i, !.userAuthenticated = i]
          /\ reconf' = [reconf EXCEPT ![i].pc = "done", ![i].outcome = "registered"]
  /\ regPc' = registerAfter(i, FALSE)
  /\ UNCHANGED <<settings, authReq, cb, cryptoOps, box>>

(***************************************************************************)
(* onAuthRequest.                                                          *)
(***************************************************************************)
NextAuthReq == CHOOSE r \in DOMAIN authReq :
                 authReq[r].pc = "idle" /\ \A j \in 1 .. (r - 1) : authReq[j].pc # "idle"

NextCb == CHOOSE h \in 1 .. MaxCb :
            cb[h].pc = "idle" /\ \A j \in 1 .. (h - 1) : cb[j].pc # "idle"

\* a catch that answers with the error redirect, as handleCb's does
onAuthRequest_caught_Redirects(r, at) ==
  authReq' = [authReq EXCEPT ![r].pc = "done", ![r].logged = TRUE,
                             ![r].failedAt = at,
                             ![r].response = "/login?externalAuthError=true"]

\* the catch of onAuthRequest: the error is logged and nothing is sent
onAuthRequest_caught(r, at) ==
  authReq' = [authReq EXCEPT ![r].pc = "done", ![r].logged = TRUE,
                             ![r].failedAt = at]

\* the host invokes the registered onAuthRequest: the PKCE pair is made,
\* the authorization URL is built from store.client, and encrypt starts
\* by asking for random bytes
onAuthRequest_begin(v) ==
  /\ hostAuths # <<>>
  /\ \E r \in DOMAIN authReq : authReq[r].pc = "idle"
  /\ LET r == NextAuthReq
     IN IF store.client = Null
        THEN onAuthRequest_caught(r, "authorizationUrl")
        ELSE authReq' = [authReq EXCEPT ![r].pc = "randomBytes", ![r].verifier = v,
                                        ![r].challenge = codeChallenge(v),
                                        ![r].url = authorizationUrl(codeChallenge(v))]
  /\ UNCHANGED <<store, regPc, hostAuths, settings, reconf, cb, cryptoOps, box>>

\* getRandomBytes rejects inside encrypt
onAuthRequest_randomBytesFail(r) ==
  /\ authReq[r].pc = "randomBytes"
  /\ onAuthRequest_caught(r, "encrypt")
  /\ UNCHANGED <<store, regPc, hostAuths, settings, reconf, cb, cryptoOps, box>>

\* one verifier for all invocations: that of the one begun last
codeVerifierOf_Shared(r) ==
  authReq[CHOOSE q \in DOMAIN authReq :
            authReq[q].pc # "idle"
              /\ \A j \in DOMAIN authReq : j > q => authReq[j].pc = "idle"].verifier

\* const codeVerifier: the local of invocation r
codeVerifierOf(r) == authReq[r].verifier

\* the IV arrives: the verifier is encrypted under store.secretKey, the
\* cookie is set (res.cookie may throw) and the user agent is redirected to
\* the IdP
onAuthRequest_encrypted(r, iv, cookieOk) ==
  /\ authReq[r].pc = "randomBytes"
  /\ cryptoOps' = cryptoOps \cup {[op |-> "encrypt", key |-> store.secretKey]}
  /\ LET encryptedCodeVerifier == encrypt(store.secretKey, iv, codeVerifierOf(r))
     IN IF ~encryptedCodeVerifier.ok
        THEN onAuthRequest_caught(r, "encrypt")
        ELSE IF ~cookieOk
        THEN onAuthRequest_caught(r, "cookie")
        ELSE authReq' = [authReq EXCEPT ![r].pc = "done",
                                        ![r].cookie = encryptedCodeVerifier.value,
                                        ![r].response = "redirect"]
  /\ UNCHANGED <<store, regPc, hostAuths, settings, reconf, cb, box>>

(***************************************************************************)
(* The requests that reach the callback route: the cookie a user agent     *)
(* sends is absent, a cookie onAuthRequest set, or such a cookie edited.   *)
(***************************************************************************)
SegmentEdits(seg) ==
  ({[seg EXCEPT ![i] = c] : i \in 1 .. Len(seg), c \in SegmentChars}
     \cup {Append(seg, c) : c \in SegmentChars}
     \cup {SubSeq(seg, 1, Len(seg) - 1)}) \ {seg}

\* kind: which part was edited; same: the edited segment still decodes to
\* the same bytes
EditedCookies(token) ==
  LET iv == Split(token)[1]
      ct == Split(token)[2]
  IN {[kind |-> "intact", same |-> TRUE, text |-> token],
      [kind |-> "nocolon", same |-> FALSE, text |-> iv \o ct]}
       \cup {[kind |-> "iv", same |-> HexDecode(e) = HexDecode(iv),
              text |-> e \o <<Separator>> \o ct] : e \in SegmentEdits(iv)}
       \cup {[kind |-> "ct", same |-> HexDecode(e) = HexDecode(ct),
              text |-> iv \o <<Separator>> \o e] : e \in SegmentEdits(ct)}

Redirected == {r \in 1 .. MaxAuthReq : authReq[r].response = "redirect"}

\* from: the onAuthRequest whose cookie it is or was
Cookies ==
  {[kind |-> "absent", same |-> FALSE, text |-> <<>>, from |-> 0]}
    \cup UNION {{[kind |-> e.kind, same |-> e.same, text |-> e.text, from |-> r] :
                   e \in EditedCookies(authReq[r].cookie)} : r \in Redirected}

\* the IdP's token endpoint accepts a code it issued for an authorization
\* request only with the verifier of that request's challenge
IdPAccepts(code, verifier) ==
  /\ code \in Redirected
  /\ codeChallenge(verifier) = authReq[code].challenge

(***************************************************************************)
(* handleCb.                                                               *)
(***************************************************************************)
\* router.use('/id-token-cb', ...) has run
routeRegistered == regPc # "start"

\* the acceptor check left out
acceptorMissing_Unchecked == FALSE

\* !store.userAuthenticated
acceptorMissing == store.userAuthenticated = Null

\* !encryptedCodeVerifier
cookieMissing(text) == text = <<>>

\* onCBError(res): res.redirect('/login?externalAuthError=true')
onCBError == "/login?externalAuthError=true"

\* a catch that only logs, as onAuthRequest's does
handleCb_caught_OnlyLogged(h, at) ==
  cb' = [cb EXCEPT ![h].pc = "done", ![h].failedAt = at]

\* the catch of handleCb: logs and calls onCBError
handleCb_caught(h, at) ==
  cb' = [cb EXCEPT ![h].pc = "done", ![h].response = onCBError, ![h].failedAt = at]

\* a request reaches the route: the acceptor check, the cookie check, and
\* decrypt, which has no await of its own and runs at once
handleCb_begin ==
  /\ routeRegistered
  /\ \E h \in 1 .. MaxCb : cb[h].pc = "idle"
  /\ \E c \in Cookies, code \in 0 .. MaxAuthReq :
       LET h == NextCb
           req == [cb[h] EXCEPT !.kind = c.kind, !.same = c.same, !.from = c.from,
                                !.code = code,
                                !.hadAcceptor = (store.userAuthenticated # Null)]
       IN IF acceptorMissing
          THEN /\ cb' = [cb EXCEPT ![h] = [req EXCEPT !.pc = "done",
                                                       !.response = onCBError,
                                                       !.exit = "noAcceptor"]]
               /\ UNCHANGED cryptoOps
          ELSE IF cookieMissing(c.text)
          THEN /\ cb' = [cb EXCEPT ![h] = [req EXCEPT !.pc = "done",
                                                       !.response = onCBError,
                                                       !.exit = "noCookie"]]
               /\ UNCHANGED cryptoOps
          ELSE LET codeVerifier == decrypt(store.secretKey, c.text)
               IN /\ cryptoOps' =
                       cryptoOps \cup {[op |-> "decrypt", key |-> store.secretKey]}
                  /\ IF codeVerifier.ok
                     THEN cb' = [cb EXCEPT ![h] = [req EXCEPT !.pc = "decrypted",
                                                              !.did = {"decrypt"},
                                                              !.verifier = codeVerifier.value]]
                     ELSE cb' = [cb EXCEPT ![h] = [req EXCEPT !.pc = "done",
                                                              !.did = {"decrypt"},
                                                              !.response = onCBError,
                                                              !.failedAt = "decrypt"]]
  /\ UNCHANGED <<store, regPc, hostAuths, settings, reconf, authReq, box>>

\* after decrypt: store.client.callbackParams(req) and the call of
\* store.client.callback(...), in one segment, on the client installed now
handleCb_callback(h, paramsOk) ==
  /\ cb[h].pc = "decrypted"
  /\ IF store.client = Null \/ ~paramsOk
     THEN handleCb_caught(h, "callbackParams")
     ELSE cb' = [cb EXCEPT ![h].pc = "callback", ![h].cCallback = store.client,
                           ![h].did = @ \cup {"callback"}]
  /\ UNCHANGED <<store, regPc, hostAuths, settings, reconf, authReq, cryptoOps, box>>

\* the token exchange ended: on a token set, store.client.userinfo(...) is
\* called on the client installed now
handleCb_tokenSet(h, idpOk) ==
  /\ cb[h].pc = "callback"
  /\ idpOk => IdPAccepts(cb[h].code, cb[h].verifier)
  /\ IF ~idpOk
     THEN handleCb_caught(h, "callback")
     ELSE IF store.client = Null
     THEN handleCb_caught(h, "userinfo")
     ELSE cb' = [cb EXCEPT ![h].pc = "userinfo", ![h].cUserinfo = store.client,
                           ![h].did = @ \cup {"userinfo"}]
  /\ UNCHANGED <<store, regPc, hostAuths, settings, reconf, authReq, cryptoOps, box>>

\* the userinfo request ended: on success the mapping settings are asked for
handleCb_userInfo(h, ok) ==
  /\ cb[h].pc = "userinfo"
  /\ IF ok
     THEN cb' = [cb EXCEPT ![h].pc = "getSettings"]
     ELSE handleCb_caught(h, "userinfo")
  /\ UNCHANGED <<store, regPc, hostAuths, settings, reconf, authReq, cryptoOps, box>>

\* getSettings ended: the identity is mapped from the userinfo m.userInfo
\* under the settings m.ms and handed to store.userAuthenticated, which is
\* the handle installed now
handleCb_userAuthenticated(h, settingsOk, handOffOk, m) ==
  /\ cb[h].pc = "getSettings"
  /\ LET identity == mapIdentity(m.ms, m.userInfo)
     IN IF ~settingsOk
        THEN handleCb_caught(h, "getSettings")
        ELSE IF ~identity.ok
        THEN handleCb_caught(h, "username")
        ELSE IF store.userAuthenticated = Null \/ ~handOffOk
        THEN handleCb_caught(h, "userAuthenticated")
        ELSE cb' = [cb EXCEPT ![h].pc = "done", ![h].response = "userAuthenticated",
                              ![h].did = @ \cup {"userAuthenticated"},
                              ![h].identity = identity.value]
  /\ UNCHANGED <<store, regPc, hostAuths, settings, reconf, authReq, cryptoOps, box>>

\* the segments of a handleCb invocation after its first
handleCb_resume(h) ==
  \/ \E ok \in BOOLEAN : handleCb_callback(h, ok)
  \/ \E ok \in BOOLEAN : handleCb_tokenSet(h, ok)
  \/ \E ok \in BOOLEAN : handleCb_userInfo(h, ok)
  \/ \E ok1 \in BOOLEAN, ok2 \in BOOLEAN, m \in SomeMappings :
       handleCb_userAuthenticated(h, ok1, ok2, m)

(***************************************************************************)
(* The system.                                                             *)
(***************************************************************************)
Next ==
  \/ register_begin
  \/ register_randomBytesFail
  \/ \E k \in Keys : register_secretKey(k)
  \/ \E s \in SettingsSpace : settingsSaved(s)
  \/ \E s \in SettingsSpace : onSettingsChange(s, MaxReconfServing)
  \/ \E i \in 1 .. MaxReconf : loadSettingsAndCreateClient_getSettings(i)
  \/ \E i \in 1 .. MaxReconf : loadSettingsAndCreateClient_discoverFail(i)
  \/ \E i \in 1 .. MaxReconf : loadSettingsAndCreateClient_discovered(i)
  \/ \E v \in Verifiers : onAuthRequest_begin(v)
  \/ \E r \in 1 .. MaxAuthReq : onAuthRequest_randomBytesFail(r)
  \/ \E r \in 1 .. MaxAuthReq, iv \in SomeIVs, cookieOk \in BOOLEAN :
       onAuthRequest_encrypted(r, iv, cookieOk)
  \/ handleCb_begin
  \/ \E h \in 1 .. MaxCb, ok \in BOOLEAN : handleCb_callback(h, ok)
  \/ \E h \in 1 .. MaxCb, ok \in BOOLEAN : handleCb_tokenSet(h, ok)
  \/ \E h \in 1 .. MaxCb, ok \in BOOLEAN : handleCb_userInfo(h, ok)
  \/ \E h \in 1 .. MaxCb, ok1 \in BOOLEAN, ok2 \in BOOLEAN, m \in SomeMappings :
       handleCb_userAuthenticated(h, ok1, ok2, m)

Spec == Init /\ [][Next]_vars

(***************************************************************************)
(* register and loadSettingsAndCreateClient on their own.                  *)
(***************************************************************************)
ReconfNext ==
  \/ register_begin
  \/ register_randomBytesFail
  \/ \E k \in Keys : register_secretKey(k)
  \/ \E s \in SettingsSpace : settingsSaved(s)
  \/ \E s \in SettingsSpace : onSettingsChange(s, MaxReconf)
  \/ \E i \in 1 .. MaxReconf : loadSettingsAndCreateClient_getSettings(i)
  \/ \E i \in 1 .. MaxReconf : loadSettingsAndCreateClient_discoverFail(i)
  \/ \E i \in 1 .. MaxReconf : loadSettingsAndCreateClient_discovered(i)

ReconfSpec == Init /\ [][ReconfNext]_vars

(***************************************************************************)
(* register, loadSettingsAndCreateClient and overlapping onAuthRequest     *)
(* invocations.                                                            *)
(***************************************************************************)
AuthInit ==
  /\ store = [client |-> Null, userAuthenticated |-> Null, secretKey |-> Null,
              redirectUrl |-> ""]
  /\ regPc = "start"
  /\ hostAuths = <<>>
  /\ settings \in SettingsSpace
  /\ reconf = [i \in 1 .. MaxReconf |-> IdleReconf]
  /\ authReq = [r \in 1 .. MaxAuthOverlap |-> IdleAuthReq]
  /\ cb = [h \in 1 .. MaxCb |-> IdleCb]
  /\ cryptoOps = {}
  /\ box = IdleBox

AuthNext ==
  \/ register_begin
  \/ register_randomBytesFail
  \/ \E k \in Keys : register_secretKey(k)
  \/ \E s \in SettingsSpace : settingsSaved(s)
  \/ \E s \in SettingsSpace : onSettingsChange(s, MaxReconfServing)
  \/ \E i \in 1 .. MaxReconf : loadSettingsAndCreateClient_getSettings(i)
  \/ \E i \in 1 .. MaxReconf : loadSettingsAndCreateClient_discoverFail(i)
  \/ \E i \in 1 .. MaxReconf : loadSettingsAndCreateClient_discovered(i)
  \/ \E v \in Verifiers : onAuthRequest_begin(v)
  \/ \E r \in 1 .. MaxAuthOverlap : onAuthRequest_randomBytesFail(r)
  \/ \E r \in 1 .. MaxAuthOverlap, iv \in SomeIVs, cookieOk \in BOOLEAN :
       onAuthRequest_encrypted(r, iv, cookieOk)

AuthSpec == AuthInit /\ [][AuthNext]_vars

(***************************************************************************)
(* encrypt and decrypt on their own: a key, a plaintext and an IV are      *)
(* drawn; the plaintext is encrypted; the token is decrypted as it is, or  *)
(* edited and then decrypted.                                              *)
(***************************************************************************)
CryptoInit ==
  /\ SysInit({Setting("", "", "")})
  /\ box \in {[IdleBox EXCEPT !.phase = "drawn", !.key = k, !.data = d, !.iv = iv] :
                k \in Keys, d \in Strings, iv \in AllIVs}

box_encrypt ==
  /\ box.phase = "drawn"
  /\ box' = [box EXCEPT !.phase = "encrypted",
                        !.token = encrypt(box.key, box.iv, box.data).value]
  /\ UNCHANGED sysVars

box_decrypt ==
  /\ box.phase = "encrypted"
  /\ box' = [box EXCEPT !.phase = "decrypted", !.kind = "intact", !.same = TRUE,
                        !.result = decrypt(box.key, box.token)]
  /\ UNCHANGED sysVars

box_edit ==
  /\ box.phase = "encrypted"
  /\ \E e \in EditedCookies(box.token) :
       /\ e.kind # "intact"
       /\ box' = [box EXCEPT !.phase = "edited", !.token = e.text, !.kind = e.kind,
                             !.same = e.same]
  /\ UNCHANGED sysVars

box_decryptEdited ==
  /\ box.phase = "edited"
  /\ box' = [box EXCEPT !.phase = "decrypted", !.result = decrypt(box.key, box.token)]
  /\ UNCHANGED sysVars

CryptoNext ==
  \/ box_encrypt
  \/ box_decrypt
  \/ box_edit
  \/ box_decryptEdited

CryptoSpec == CryptoInit /\ [][CryptoNext]_vars

(***************************************************************************)
(* The identity mapping on its own: mapping settings and a userinfo        *)
(* response are drawn and mapped.                                          *)
(***************************************************************************)
NameChars == {"j", "J", "9", ".", "_", "-"}

RECURSIVE NamesOfLen(_)
NamesOfLen(n) ==
  IF n = 0 THEN {<<>>}
  ELSE {Append(s, c) : s \in NamesOfLen(n - 1), c \in NameChars}

JohnDoe == <<"J", "o", "h", "n", ".", "D", "o", "e">>

Jane99 == <<"j", "a", "n", "e", "_", "9", "9">>

Names == UNION {NamesOfLen(n) : n \in 0 .. MaxNameLen} \cup {JohnDoe, Jane99}

UsernameValues == {Str(s) : s \in Names} \cup {Undefined, Num(0), Num(7)}

RoleValues ==
  {Undefined, Num(2), Str(<<"2">>), Str(<<"2", "7">>), Str(<<"x">>),
   Str(<<"2", "x">>), Str(<<" ", "2">>), Str(<<"-", "2">>), Str(<<>>)}

UserInfos ==
  {UserInfo(u, Str(<<"j", "@", "x">>), d, r) :
     u \in UsernameValues, d \in {Undefined, Str(<<"J", "o">>)}, r \in RoleValues}

MapSettings ==
  {MapSetting(u, "email", d, r) :
     u \in {"preferred_username", ""}, d \in {"name", ""}, r \in {"role", ""}}

MapInit ==
  /\ SysInit({Setting("", "", "")})
  /\ box \in {[phase |-> "drawn", ms |-> ms, userInfo |-> u, result |-> Thrown] :
                ms \in MapSettings, u \in UserInfos}

box_mapIdentity ==
  /\ box.phase = "drawn"
  /\ box' = [box EXCEPT !.phase = "mapped",
                        !.result = mapIdentity(box.ms, box.userInfo)]
  /\ UNCHANGED sysVars

MapNext == box_mapIdentity

MapSpec == MapInit /\ [][MapNext]_vars

(***************************************************************************)
(* The claims.                                                             *)
(***************************************************************************)
Runs == 1 .. MaxReconf

Callbacks == 1 .. MaxCb

AuthRequests == 1 .. MaxAuthReq

HandedOff(h) == cb[h].response = "userAuthenticated"

\* C1: when a run of loadSettingsAndCreateClient that read an empty
\* discover-url or client-id returns, no authentication method is registered
\* with the host.
C1_NoMethodAfterDisabledRun ==
  [][\A i \in Runs :
       (reconf[i].pc # "done" /\ reconf'[i].pc = "done" /\ reconf'[i].outcome = "disabled")
         => hostAuths' = <<>>]_vars

\* C2: in every reachable state at most one authentication method of this
\* plugin is registered with the host.
C2_AtMostOneMethod == Len(hostAuths) <= 1

\* C3: a handleCb invocation that hands an identity to the host called
\* callbackParams, callback and userinfo on one and the same client.
C3_OneClientPerCallback ==
  \A h \in Callbacks : HandedOff(h) => cb[h].cCallback = cb[h].cUserinfo

\* C4 (as claimed): the secret key is stored before the callback route is
\* registered and before the authentication method is registered.
C4_KeyBeforeRouteAndMethod ==
  (routeRegistered \/ hostAuths # <<>>) => store.secretKey # Null

\* C4 (amended): the secret key is stored before the authentication method is
\* registered and before any onAuthRequest runs or any handleCb decrypts; a
\* handleCb invoked while the key is unset ends at the acceptor check.
C4_KeyBeforeMethod ==
  /\ (\/ hostAuths # <<>>
      \/ store.userAuthenticated # Null
      \/ \E r \in AuthRequests : authReq[r].pc # "idle"
      \/ \E h \in Callbacks : cb[h].did # {})
       => store.secretKey # Null
  /\ \A h \in Callbacks :
       (cb[h].pc # "idle" /\ store.secretKey = Null)
         => (cb[h].exit = "noAcceptor" /\ cb[h].response = onCBError)

C4_Witness ==
  /\ hostAuths # <<>>
  /\ \E r \in AuthRequests : authReq[r].response = "redirect"
  /\ \E h \in Callbacks : cb[h].did # {}

\* C5: once store.secretKey is assigned no step assigns it again, and every
\* encrypt and decrypt that ran read that same non-null key.
C5_KeyImmutable ==
  /\ [](\A o \in cryptoOps : o.key # Null /\ o.key = store.secretKey)
  /\ [][store.secretKey # Null => store'.secretKey = store.secretKey]_vars

C5_Witness == {o.op : o \in cryptoOps} = {"encrypt", "decrypt"}

\* C6: a handleCb invocation that finds no acceptor handle, or whose request
\* has no transport cookie, answers with the error redirect and calls neither
\* decrypt nor callback nor userinfo nor the acceptor; the acceptor check
\* comes first.
C6_MissingAcceptorOrCookie ==
  \A h \in Callbacks :
    (cb[h].pc # "idle" /\ (~cb[h].hadAcceptor \/ cb[h].kind = "absent"))
      => /\ cb[h].pc = "done"
         /\ cb[h].response = onCBError
         /\ cb[h].did = {}
         /\ cb[h].failedAt = ""
         /\ cb[h].exit = IF cb[h].hadAcceptor THEN "noCookie" ELSE "noAcceptor"

C6_Witness ==
  \E h \in Callbacks : cb[h].pc = "done" /\ ~cb[h].hadAcceptor /\ cb[h].kind # "absent"

\* C7 (as claimed): a handleCb invocation whose cookie lost its separator or
\* had its IV segment or its ciphertext segment modified never hands an
\* identity to the host and ends in the error redirect.
C7_EditedCookieRejected ==
  \A h \in Callbacks :
    cb[h].kind \in {"nocolon", "iv", "ct"}
      => /\ ~HandedOff(h)
         /\ cb[h].pc = "done" => cb[h].response = onCBError

\* C7 (amended): the same, for a cookie that lost its separator or whose
\* modified segment decodes to other bytes than the original segment.
C7_ChangedBytesRejected ==
  \A h \in Callbacks :
    (cb[h].kind = "nocolon" \/ (cb[h].kind \in {"iv", "ct"} /\ ~cb[h].same))
      => /\ ~HandedOff(h)
         /\ cb[h].pc = "done" => cb[h].response = onCBError

C7_Witness ==
  \E h \in Callbacks :
    /\ cb[h].kind = "iv"
    /\ ~cb[h].same
    /\ cb[h].failedAt = "callback"
    /\ cb[h].response = onCBError

\* C8: decrypt of a token whose IV segment or ciphertext segment was modified
\* (so that it decodes to other bytes) fails with an error.
C8_EditedTokenFails ==
  (box.phase = "decrypted" /\ box.kind \in {"iv", "ct"} /\ ~box.same)
    => ~box.result.ok

\* C9: decrypt(encrypt(s)) = s for every string s and every IV, and the token
\* is ivHex ':' cipherHex.
C9_RoundTrip ==
  (box.phase = "decrypted" /\ box.kind = "intact")
    => /\ box.result = Returned(box.data)
       /\ LET parts == Split(box.token)
          IN /\ Len(parts) = 2
             /\ parts[1] = HexEncode(box.iv)
             /\ parts[2] = HexEncode(HexDecode(parts[2]))
             /\ Len(parts[2]) > 0

C9_Witness ==
  box.phase = "decrypted" /\ box.kind = "intact" /\ Len(box.data) = MaxLen

\* C10: a handleCb invocation in which a step failed ends in the error
\* redirect, the identity is handed off only after every earlier step
\* succeeded, and no invocation is left without a response.
C10_FailuresRedirect ==
  \A h \in Callbacks :
    /\ cb[h].pc = "done" => cb[h].response \in {onCBError, "userAuthenticated"}
    /\ cb[h].failedAt # "" => (cb[h].pc = "done" /\ cb[h].response = onCBError)
    /\ HandedOff(h)
         => /\ cb[h].failedAt = ""
            /\ cb[h].did = {"decrypt", "callback", "userinfo", "userAuthenticated"}
    /\ cb[h].pc \notin {"idle", "done"} => ENABLED handleCb_resume(h)

C10_Witness ==
  \E h \in Callbacks :
    /\ cb[h].failedAt = "userAuthenticated"
    /\ store.userAuthenticated = Null
    /\ cb[h].response = onCBError

\* C11: an onAuthRequest invocation in which a step failed (the authorization
\* URL with store.client unset, encrypt, setting the cookie) logs the error
\* and sends nothing: no cookie, no redirect, no error response; and an
\* invocation ends without a response only in that way.
C11_AuthRequestFailureUnresolved ==
  \A r \in AuthRequests :
    /\ authReq[r].failedAt # ""
         => /\ authReq[r].pc = "done"
            /\ authReq[r].logged
            /\ authReq[r].response = "none"
            /\ authReq[r].cookie = <<>>
    /\ (authReq[r].pc = "done" /\ authReq[r].response = "none")
         => (authReq[r].logged /\ authReq[r].failedAt # "")

C11_Witness ==
  \E r \in AuthRequests :
    /\ authReq[r].failedAt = "authorizationUrl"
    /\ \E i \in Runs : reconf[i].outcome = "registered"
    /\ store.client = Null
    /\ authReq[r].response = "none"

\* s has t as a run of consecutive characters
Contains(s, t) ==
  \E i \in 1 .. (Len(s) - Len(t) + 1) : SubSeq(s, i, i + Len(t) - 1) = t

\* C12: an onAuthRequest invocation sends the user agent nothing but the
\* cookie and the authorization URL; the cookie is encrypt(codeVerifier)
\* under the stored key, it neither is nor contains the verifier and its
\* ciphertext bytes are not the padded verifier's bytes; the URL carries the
\* codeChallenge and not the verifier; the store has its four fields only,
\* none of which holds a verifier.
C12_VerifierNeverInClear ==
  /\ \A r \in AuthRequests :
       /\ authReq[r].response \in {"none", "redirect"}
       /\ authReq[r].response = "none" => authReq[r].cookie = <<>>
       /\ authReq[r].response = "redirect"
            => LET v == authReq[r].verifier
                   c == authReq[r].cookie
               IN /\ \E iv \in SomeIVs : c = encrypt(store.secretKey, iv, v).value
                  /\ c # v
                  /\ ~Contains(c, v)
                  /\ HexDecode(Split(c)[2]) # Pad(Utf8Encode(v))
                  /\ authReq[r].url = authorizationUrl(codeChallenge(v))
                  /\ authReq[r].url.code_challenge # v
  /\ DOMAIN store = {"client", "userAuthenticated", "secretKey", "redirectUrl"}
  /\ store.client \in Runs \cup {Null}
  /\ store.userAuthenticated \in Runs \cup {Null}
  /\ store.secretKey \in Keys \cup {Null}
  /\ store.redirectUrl \in {"", RedirectUrl}

C12_Witness ==
  \E r \in AuthRequests :
    /\ authReq[r].response = "redirect"
    /\ decrypt(store.secretKey, authReq[r].cookie) = Returned(authReq[r].verifier)

\* C13: when a run of loadSettingsAndCreateClient fails at the issuer
\* discovery, then store.client and store.userAuthenticated are unset, no
\* method is registered with the host, and the failure was logged by the
\* plugin, for the startup run as for a run after a settings change.
C13_DiscoveryFailureLeavesNothing ==
  [][\A i \in Runs :
       (reconf[i].pc # "done" /\ reconf'[i].pc = "done" /\ reconf'[i].outcome = "threw")
         => /\ store'.client = Null
            /\ store'.userAuthenticated = Null
            /\ hostAuths' = <<>>
            /\ reconf'[i].logged]_vars

\* C14: once the startup run of loadSettingsAndCreateClient has ended,
\* whatever its outcome, every change of the settings starts a run of
\* loadSettingsAndCreateClient.
C14_EveryChangeReconfigures ==
  [][(reconf[1].pc = "done" /\ settings' # settings)
       => \E i \in Runs : reconf[i].pc = "idle" /\ reconf'[i].pc # "idle"]_vars

\* the text after leading white space and one sign
Unsigned(s) ==
  LET t == TrimStart(s)
  IN IF t # <<>> /\ Head(t) \in {"+", "-"} THEN Tail(t) ELSE t

\* s is an integer numeral and nothing else
IsNumeric(s) == Unsigned(s) # <<>> /\ \A i \in 1 .. Len(Unsigned(s)) : Unsigned(s)[i] \in Digits

\* s begins with an integer numeral
HasLeadingInteger(s) == Unsigned(s) # <<>> /\ Head(Unsigned(s)) \in Digits

\* C15 (as claimed): in the identity handleCb hands to the host, role is
\* undefined when role-property is unset and else the base-10 integer parse
\* of the userinfo value of that property: "2" gives 2 and an absent or
\* non-numeric value gives NaN; displayName is undefined when
\* display-name-property is unset.
C15_NonNumericIsNaN ==
  (box.phase = "mapped" /\ box.result.ok)
    => LET id == box.result.value
           raw == box.userInfo.role
       IN /\ box.ms.role_property = "" => id.role = Undefined
          /\ box.ms.role_property = "role"
               => /\ raw = Str(<<"2">>) => id.role = Num(2)
                  /\ (raw = Undefined \/ ~IsNumeric(StringOf(raw))) => id.role = NaN
          /\ box.ms.display_name_property = "" => id.displayName = Undefined

\* C15 (amended): the same, where a value that begins with an integer
\* numeral gives that integer whatever follows it ("2x" gives 2), and an
\* absent value and a value that does not begin with one give NaN; the
\* hand-off happens with NaN all the same.
C15_RoleAndDisplayName ==
  (box.phase = "mapped" /\ box.result.ok)
    => LET id == box.result.value
           raw == box.userInfo.role
       IN /\ box.ms.role_property = "" => id.role = Undefined
          /\ box.ms.role_property = "role"
               => /\ raw \in {Str(<<"2">>), Num(2), Str(<<"2", "x">>), Str(<<" ", "2">>)}
                       => id.role = Num(2)
                  /\ raw = Str(<<"2", "7">>) => id.role = Num(27)
                  /\ raw = Str(<<"-", "2">>) => id.role = Num(0 - 2)
                  /\ raw = Undefined => id.role = NaN
                  /\ HasLeadingInteger(StringOf(raw)) <=> id.role.t = "number"
                  /\ ~HasLeadingInteger(StringOf(raw)) <=> id.role = NaN
          /\ box.ms.display_name_property = "" => id.displayName = Undefined
          /\ box.ms.display_name_property = "name" => id.displayName = box.userInfo.name

C15_Witness ==
  /\ box.phase = "mapped"
  /\ box.result.ok
  /\ box.ms.role_property = "role"
  /\ box.userInfo.role = Undefined
  /\ box.result.value.role = NaN

\* C16: the username handleCb hands to the host is the userinfo value of
\* username-property, the empty string when it is absent, with every
\* character outside a-z, 0-9, '.' and '_' replaced by '_' and every other
\* character kept in its place: the length is kept, "John.Doe" gives
\* "_ohn._oe" and "jane_99" is unchanged.
C16_UsernameSanitized ==
  (box.phase = "mapped" /\ box.result.ok)
    => LET found == Get(box.userInfo, box.ms.username_property)
           src == IF found.t = "string" THEN found.s ELSE <<>>
           out == box.result.value.username
       IN /\ out.t = "string"
          /\ Len(out.s) = Len(src)
          /\ \A i \in 1 .. Len(src) :
               /\ src[i] \in {"j", "o", "h", "n", "a", "e", "9", ".", "_"} => out.s[i] = src[i]
               /\ src[i] \in {"J", "D", "-"} => out.s[i] = "_"
          /\ src = JohnDoe => out.s = <<"_", "o", "h", "n", ".", "_", "o", "e">>
          /\ src = Jane99 => out.s = Jane99

C16_Witness ==
  /\ box.phase = "mapped"
  /\ box.result.ok
  /\ box.userInfo.preferred_username = Str(JohnDoe)
  /\ box.result.value.username = Str(<<"_", "o", "h", "n", ".", "_", "o", "e">>)

\* C17: while every run of loadSettingsAndCreateClient read valid settings
\* and discovered its issuer, registerExternalAuth was called by at most one
\* of them, and the handle held is the one that call returned.
C17_HandleCapturedOnce ==
  (\A i \in Runs : reconf[i].outcome \in {"", "registered", "kept"})
    => /\ Cardinality({i \in Runs : reconf[i].outcome = "registered"}) <= 1
       /\ \A i \in Runs :
            (reconf[i].outcome = "registered" /\ store.userAuthenticated # Null)
              => store.userAuthenticated = i

\* C18: an onAuthRequest invocation that redirected the user agent to the
\* IdP set the cookie on the same response; the cookie decrypts to a verifier
\* whose challenge is the code_challenge of the URL of that redirect; and the
\* URL of one invocation never carries the challenge of the verifier in the
\* cookie of another invocation that drew another verifier.
C18_CookieMatchesChallenge ==
  \A r \in DOMAIN authReq :
    authReq[r].response = "redirect"
      => LET v == decrypt(store.secretKey, authReq[r].cookie)
         IN /\ authReq[r].cookie # <<>>
            /\ v.ok
            /\ v.value = authReq[r].verifier
            /\ authReq[r].url.code_challenge = codeChallenge(v.value)
            /\ \A q \in DOMAIN authReq :
                 (authReq[q].response = "redirect"
                    /\ authReq[q].verifier # authReq[r].verifier)
                   => authReq[q].url.code_challenge # codeChallenge(v.value)

C18_Witness ==
  \E r \in DOMAIN authReq, q \in DOMAIN authReq :
    /\ authReq[r].response = "redirect"
    /\ authReq[q].response = "redirect"
    /\ authReq[r].verifier # authReq[q].verifier
    /\ authReq[r].cookie # authReq[q].cookie

\* C19: in every state, and so wherever control switches between operations,
\* store.userAuthenticated set implies store.client set; a step that unsets
\* the handle unsets the client, and a step that installs the handle leaves
\* a client installed.
C19_AcceptorImpliesClient ==
  /\ [](store.userAuthenticated # Null => store.client # Null)
  /\ [][/\ (store.userAuthenticated # Null /\ store'.userAuthenticated = Null)
            => store'.client = Null
        /\ (store.userAuthenticated = Null /\ store'.userAuthenticated # Null)
            => store'.client # Null]_vars

C19_Witness ==
  /\ \E i \in Runs : reconf[i].overlap /\ reconf[i].outcome = "kept"
  /\ store.userAuthenticated # Null
  /\ store.client # store.userAuthenticated

\* the run begun last
LatestRun == CHOOSE i \in Runs :
               reconf[i].pc # "idle" /\ \A j \in Runs : j > i => reconf[j].pc = "idle"

\* C20: when runs of loadSettingsAndCreateClient overlapped and all of them
\* have ended, the store reflects the settings the run begun last read: the
\* client is built from those settings, and when they disable the plugin
\* there is no client, no handle and no registered method.
C20_LatestRunWins ==
  (/\ \A i \in Runs : reconf[i].pc \in {"idle", "done"}
   /\ \E i \in Runs : reconf[i].overlap)
    => /\ reconf[LatestRun].outcome = "disabled"
            => /\ store.client = Null
               /\ store.userAuthenticated = Null
               /\ hostAuths = <<>>
       /\ reconf[LatestRun].outcome \in {"registered", "kept"}
            => /\ store.client # Null
               /\ reconf[store.client].settings = reconf[LatestRun].settings

=============================================================================
